---- MODULE Spec2Model ----
(***************************************************************************)
(* script2slide: markup text -> blocks (parser_md.parse_script), blocks -> *)
(* slide deck (gen_pptx.build_storyboard_pptx) and blocks -> quiz table    *)
(* (gen_csv.build_quiz_csv).                                               *)
(*                                                                         *)
(* A Python str is a sequence of one-character strings, so that strip,     *)
(* upper, replace and the regular expressions are computed character by    *)
(* character.  A Python list is a sequence.  None is the empty tuple <<>>  *)
(* and a present optional value v is <<v>>.  A dict is a record.           *)
(***************************************************************************)
EXTENDS Integers, Sequences, FiniteSets, TLC

VARIABLES
    entry,      \* how the program is entered: "script" (app.py:186), "request" until the parse path is chosen, then "script" (app.py:186) or "upload" (app.py:181); "blocks" and "repeat" when the renderers are called with a block list
    req,        \* app.py:65-72 the request: the upload and the form fields filename, font_color, bg_color
    text,       \* parse_script's argument: the pasted script
    lines,      \* parser_md.py:67  the rstripped lines of text
    i,          \* parser_md.py:68  index of the line the main loop is at (0-based); app.py:171 index of the row
    current,    \* parser_md.py:121 the open block: <<>> (None) or <<block>>
    blocks,     \* parser_md.py:69  the blocks flushed so far; after the return, the result
    pc,         \* where the request is: "parse", "import", "parsed", "pptx", "render", "csv", "csvloop", "done"
    fmt,        \* app.py:67 the requested format, "" until the dispatch reads it
    caps,       \* gen_pptx.py:284-285 [text |-> max_text_per_slide, bullets |-> max_bullets_per_slide]
    rgb,        \* gen_pptx.py:315-316 [text |-> text_rgb, bg |-> bg_rgb], <<>> before they are computed
    deck,       \* gen_pptx.py:313 prs.slides: the physical slides added so far
    bi,         \* gen_pptx.py:345 / gen_csv.py:53 index of the block the renderer's loop is at (0-based)
    chunk,      \* gen_pptx.py:430 the running _chunk_content generator: <<>> or <<its state>>
    rows,       \* gen_csv.py:50 the rows written so far
    resp,       \* app.py:183, 197-229 what the request returned: <<>> while it runs, then <<response>>
    prior       \* the decks and tables the renderers returned for this block list before, oldest first

vars == <<entry, req, text, lines, i, current, blocks, pc, fmt, caps, rgb, deck, bi, chunk, rows, resp, prior>>

--------------------------------------------------------------------------
(* Bounds of the model *)

\* longest script, in lines, drawn from LineSet
MaxLines == 3
\* most text lines and most bullet lines of a sample Slide block
MaxText == 2
MaxBullets == 3
\* largest per-slide cap a caller of build_storyboard_pptx passes, besides the default
MaxCap == 2
\* longest mixed block list handed to the renderers
MaxBlocks == 2
\* an index-form quiz has 0..MaxIndex choices and a correctIndex in -2..MaxIndex, or none
MaxIndex == 5
\* most calls of the renderers on one block list
MaxCalls == 2
\* most lines of a generated row body, and most rows of a mixed table
MaxBodyLines == 2
MaxRows == 2
\* longest generated colour string
MaxHex == 3
\* the chunks of one Slide that are followed (a render that goes on is cut off here)
MaxChunks == 14

--------------------------------------------------------------------------
(* Python str operations, on sequences of characters *)

Min(S) == CHOOSE x \in S : \A y \in S : x <= y
Max(S) == CHOOSE x \in S : \A y \in S : x >= y

UpperLetters == <<"A","B","C","D","E","F","G","H","I","J","K","L","M","N","O","P","Q","R","S","T","U","V","W","X","Y","Z">>
LowerLetters == <<"a","b","c","d","e","f","g","h","i","j","k","l","m","n","o","p","q","r","s","t","u","v","w","x","y","z">>
Digits == <<"0","1","2","3","4","5","6","7","8","9">>

Range(s) == {s[k] : k \in 1..Len(s)}

\* str.isspace for the characters of the model's alphabet
WS == {" ", "\t", "\n", "\r"}

\* \w of the re module
IsWord(c) == c \in Range(UpperLetters) \cup Range(LowerLetters) \cup Range(Digits) \cup {"_"}

LowerCh(c) ==
    IF c \in Range(UpperLetters)
    THEN LowerLetters[CHOOSE k \in 1..26 : UpperLetters[k] = c]
    ELSE c

UpperCh(c) ==
    IF c \in Range(LowerLetters)
    THEN UpperLetters[CHOOSE k \in 1..26 : LowerLetters[k] = c]
    ELSE c

lower(s) == [k \in 1..Len(s) |-> LowerCh(s[k])]
upper(s) == [k \in 1..Len(s) |-> UpperCh(s[k])]

\* s[n:]
Drop(s, n) == SubSeq(s, n + 1, Len(s))
\* s[:n] for n >= 0
Take(s, n) == SubSeq(s, 1, IF n < Len(s) THEN n ELSE Len(s))

NonWs(s) == {k \in 1..Len(s) : s[k] \notin WS}

lstrip(s) == IF NonWs(s) = {} THEN <<>> ELSE SubSeq(s, Min(NonWs(s)), Len(s))
rstrip(s) == IF NonWs(s) = {} THEN <<>> ELSE SubSeq(s, 1, Max(NonWs(s)))
strip(s) == IF NonWs(s) = {} THEN <<>> ELSE SubSeq(s, Min(NonWs(s)), Max(NonWs(s)))

\* str.lstrip(chars)
lstrip_chars(s, chars) ==
    LET keep == {k \in 1..Len(s) : s[k] \notin chars}
    IN  IF keep = {} THEN <<>> ELSE SubSeq(s, Min(keep), Len(s))

startswith(s, p) == Len(s) >= Len(p) /\ SubSeq(s, 1, Len(p)) = p

\* str.replace(" ", "")
RECURSIVE remove_spaces(_)
remove_spaces(s) ==
    IF s = <<>> THEN <<>>
    ELSE IF Head(s) = " " THEN remove_spaces(Tail(s))
    ELSE <<Head(s)>> \o remove_spaces(Tail(s))

\* "\n".join(parts)
RECURSIVE join_nl(_)
join_nl(parts) ==
    IF parts = <<>> THEN <<>>
    ELSE IF Len(parts) = 1 THEN parts[1]
    ELSE parts[1] \o <<"\n">> \o join_nl(Tail(parts))

\* str.splitlines(): a line ends at "\n", "\r" or "\r\n"; no empty last line
RECURSIVE splitlines(_)
splitlines(s) ==
    IF s = <<>> THEN <<>>
    ELSE LET brk == {k \in 1..Len(s) : s[k] \in {"\n", "\r"}}
         IN  IF brk = {} THEN <<s>>
             ELSE LET b == Min(brk)
                      n == IF s[b] = "\r" /\ b < Len(s) /\ s[b + 1] = "\n" THEN b + 1 ELSE b
                  IN  <<SubSeq(s, 1, b - 1)>> \o splitlines(Drop(s, n))

\* [x for x in list if x]
RECURSIVE nonempty(_)
\* s[a:b] of a Python list or str, 0-based and clipped like a slice
Slice(s, a, b) == SubSeq(s, a + 1, IF b < Len(s) THEN b ELSE Len(s))

nonempty(list) ==
    IF list = <<>> THEN <<>>
    ELSE IF Head(list) = <<>> THEN nonempty(Tail(list))
    ELSE <<Head(list)>> \o nonempty(Tail(list))

--------------------------------------------------------------------------
(* parser_md.py: the module-level regular expressions, matched with      *)
(* .match() against a stripped line                                      *)

\* what follows "##\s*Slide:" in ln (re.I), or <<>> when ln does not start so
SlideRest(ln) ==
    IF startswith(ln, <<"#","#">>) /\ startswith(lower(lstrip(Drop(ln, 2))), <<"s","l","i","d","e",":">>)
    THEN Drop(lstrip(Drop(ln, 2)), 6)
    ELSE <<>>

\* SLIDE_RE = ^##\s*Slide:\s*(.+)$ : the title group needs one character
SLIDE_RE_match(ln) == SlideRest(ln) # <<>>

\* group(1): \s* is greedy and gives back its last character when nothing follows
SLIDE_RE_group1(ln) ==
    IF lstrip(SlideRest(ln)) # <<>> THEN lstrip(SlideRest(ln))
    ELSE <<SlideRest(ln)[Len(SlideRest(ln))]>>

\* QUIZ_SINGLE_RE = ^##\s*Quiz:\s*Single\s*Choice\s*$ (re.I)
QUIZ_SINGLE_RE_match(ln) ==
    /\ startswith(ln, <<"#","#">>)
    /\ LET q1 == lstrip(Drop(ln, 2))
           q2 == lstrip(Drop(q1, 5))
           q3 == lstrip(Drop(q2, 6))
       IN  /\ startswith(lower(q1), <<"q","u","i","z",":">>)
           /\ startswith(lower(q2), <<"s","i","n","g","l","e">>)
           /\ startswith(lower(q3), <<"c","h","o","i","c","e">>)
           /\ lstrip(Drop(q3, 6)) = <<>>

\* length of the longest prefix of \w characters
WordLen(s) ==
    LET nw == {k \in 1..Len(s) : ~IsWord(s[k])}
    IN  IF nw = {} THEN Len(s) ELSE Min(nw) - 1

\* FIELD_RE = ^(\w+):\s*(.*)$
FIELD_RE_match(ln) ==
    /\ WordLen(ln) >= 1
    /\ Len(ln) > WordLen(ln)
    /\ ln[WordLen(ln) + 1] = ":"

FIELD_RE_group1(ln) == SubSeq(ln, 1, WordLen(ln))
FIELD_RE_group2(ln) == lstrip(Drop(ln, WordLen(ln) + 1))

--------------------------------------------------------------------------
(* Python values *)

None == <<>>
Some(v) == <<v>>
PyList(l) == [list |-> l]
PyStr(s) == [str |-> s]

\* dict.get(key, default)
Get(b, key, default) == IF key \in DOMAIN b THEN b[key] ELSE default

\* "x or default" for a str
OrStr(s, default) == IF s # <<>> THEN s ELSE default

--------------------------------------------------------------------------
(* parser_md.parse_script *)

\* line j of lines, 0-based as in the source
Line(j) == lines[j + 1]

\* a line that stops both collectors: blank, or a new field or section
IsStop(ln) ==
    ln = <<>> \/ FIELD_RE_match(ln) \/ SLIDE_RE_match(ln) \/ QUIZ_SINGLE_RE_match(ln)

\* collect_bullets: the index its while loop stops at
RECURSIVE bullets_end(_)
bullets_end(j) ==
    IF j >= Len(lines) THEN j
    ELSE IF startswith(strip(Line(j)), <<"-"," ">>) THEN bullets_end(j + 1)
    ELSE j

collect_bullets(start) ==
    LET j == bullets_end(start)
    IN  [out |-> [k \in 1..(j - start) |-> strip(Drop(strip(Line(start + k - 1)), 2))],
         j |-> j]

\* collect_textblock: the index its while loop stops at
RECURSIVE textblock_end(_)
textblock_end(j) ==
    IF j >= Len(lines) THEN j
    ELSE IF IsStop(strip(Line(j))) \/ startswith(strip(Line(j)), <<"-"," ">>) THEN j
    ELSE textblock_end(j + 1)

\* collect_textblock returning start where it should return j
collect_textblock_stuck(start) ==
    LET j == textblock_end(start)
    IN  [out |-> [k \in 1..(j - start) |-> strip(Line(start + k - 1))],
         j |-> start]

\* collect_textblock appending raw where it should append raw.strip()
collect_textblock_raw(start) ==
    LET j == textblock_end(start)
    IN  [out |-> [k \in 1..(j - start) |-> Line(start + k - 1)],
         j |-> j]

collect_textblock(start) ==
    LET j == textblock_end(start)
    IN  [out |-> [k \in 1..(j - start) |-> strip(Line(start + k - 1))],
         j |-> j]

NewSlide(title) ==
    [type |-> "slide", title |-> title, text |-> PyList(<<>>), bullets |-> PyList(<<>>),
     narration |-> <<>>, image |-> <<>>, alt |-> <<>>]

NewQuiz ==
    [type |-> "quiz_single", title |-> <<>>, question |-> <<>>, choices |-> <<>>,
     correctIndex |-> None, feedbackCorrect |-> <<>>, feedbackIncorrect |-> <<>>]

\* a section header that forgets to flush the open block
FlushedDropped == blocks

\* "if current: blocks.append(current)"
Flushed == IF current # None THEN Append(blocks, current[1]) ELSE blocks

\* {"a": 0, "b": 1, "c": 2, "d": 3}.get(v, None)
LetterIndex(v) ==
    IF v = <<"a">> THEN Some(0)
    ELSE IF v = <<"b">> THEN Some(1)
    ELSE IF v = <<"c">> THEN Some(2)
    ELSE IF v = <<"d">> THEN Some(3)
    ELSE None

\* "while len(choices) <= idx: choices.append('')", then choices[idx] = val
SetChoice(choices, idx, val) ==
    [k \in 1..(IF Len(choices) > idx + 1 THEN Len(choices) ELSE idx + 1) |->
        IF k = idx + 1 THEN val
        ELSE IF k <= Len(choices) THEN choices[k]
        ELSE <<>>]

\* a field line inside an open Slide: the block it leaves and the next index
SlideField(b, key, val) ==
    IF key \in {<<"n","a","r","r","a","t","i","o","n">>, <<"n","o","t","e","s">>}
    THEN LET more == collect_textblock(i + 1)
             narr_lines == (IF val # <<>> THEN <<val>> ELSE <<>>) \o more.out
         IN  [b |-> [b EXCEPT !.narration = strip(join_nl(nonempty(narr_lines)))],
              i |-> more.j]
    ELSE IF key \in {<<"t","e","x","t">>, <<"b","o","d","y">>, <<"c","o","n","t","e","n","t">>}
    THEN LET more == collect_textblock(i + 1)
             text_lines == (IF val # <<>> THEN <<val>> ELSE <<>>) \o more.out
         IN  [b |-> [b EXCEPT !.text = PyList(nonempty(text_lines))], i |-> more.j]
    ELSE IF key = <<"b","u","l","l","e","t","s">>
    THEN LET got == collect_bullets(i + 1)
         IN  [b |-> [b EXCEPT !.bullets = PyList(got.out)], i |-> got.j]
    ELSE IF key = <<"i","m","a","g","e">> THEN [b |-> [b EXCEPT !.image = val], i |-> i + 1]
    ELSE IF key = <<"a","l","t">> THEN [b |-> [b EXCEPT !.alt = val], i |-> i + 1]
    ELSE [b |-> b, i |-> i + 1]

\* a field line inside an open Quiz
QuizField(b, key, val) ==
    IF key = <<"t","i","t","l","e">> THEN [b EXCEPT !.title = val]
    ELSE IF key = <<"q","u","e","s","t","i","o","n">> THEN [b EXCEPT !.question = val]
    ELSE IF key \in {<<"a">>, <<"b">>, <<"c">>, <<"d">>}
    THEN [b EXCEPT !.choices = SetChoice(b.choices, LetterIndex(key)[1], val)]
    ELSE IF key \in {<<"c","o","r","r","e","c","t">>, <<"a","n","s","w","e","r">>}
    THEN [b EXCEPT !.correctIndex = LetterIndex(lower(val))]
    ELSE IF key = <<"f","e","e","d","b","a","c","k","c","o","r","r","e","c","t">> THEN [b EXCEPT !.feedbackCorrect = val]
    ELSE IF key = <<"f","e","e","d","b","a","c","k","i","n","c","o","r","r","e","c","t">> THEN [b EXCEPT !.feedbackIncorrect = val]
    ELSE b

\* lines 242-252: pad the choices to four, infer the answer from a leading "*"
NormalizeQuiz(b) ==
    LET padded == IF b.choices # <<>>
                  THEN [k \in 1..(IF Len(b.choices) > 4 THEN Len(b.choices) ELSE 4) |->
                            IF k <= Len(b.choices) THEN b.choices[k] ELSE <<>>]
                  ELSE <<>>
        starred == {k \in 1..Len(padded) : startswith(lstrip(padded[k]), <<"*">>)}
    IN  IF b.correctIndex = None /\ starred # {}
        THEN [b EXCEPT !.choices = [padded EXCEPT ![Min(starred)] =
                                        strip(lstrip_chars(padded[Min(starred)], {"*"}))],
                       !.correctIndex = Some(Min(starred) - 1)]
        ELSE [b EXCEPT !.choices = padded]

\* lines 235-240
NormalizeSlide(b) == [b EXCEPT !.narration = strip(b.narration)]

Normalize(b) == IF b.type = "slide" THEN NormalizeSlide(b) ELSE NormalizeQuiz(b)

Parsing == pc = "parse" /\ i < Len(lines)

Rest == <<fmt, caps, deck, bi, chunk, rows, resp>>

\* lines 131-145
ParseSlideHeader ==
    /\ Parsing
    /\ SLIDE_RE_match(strip(Line(i)))
    /\ blocks' = Flushed
    /\ current' = Some(NewSlide(strip(SLIDE_RE_group1(strip(Line(i))))))
    /\ i' = i + 1
    /\ UNCHANGED <<entry, req, rgb, prior, text, lines, pc, Rest>>

\* lines 147-160
ParseQuizHeader ==
    /\ Parsing
    /\ ~SLIDE_RE_match(strip(Line(i)))
    /\ QUIZ_SINGLE_RE_match(strip(Line(i)))
    /\ blocks' = Flushed
    /\ current' = Some(NewQuiz)
    /\ i' = i + 1
    /\ UNCHANGED <<entry, req, rgb, prior, text, lines, pc, Rest>>

IsHeader(ln) == SLIDE_RE_match(ln) \/ QUIZ_SINGLE_RE_match(ln)

\* lines 163-215
ParseField ==
    /\ Parsing
    /\ ~IsHeader(strip(Line(i)))
    /\ current # None
    /\ FIELD_RE_match(strip(Line(i)))
    /\ LET key == lower(FIELD_RE_group1(strip(Line(i))))
           val == strip(FIELD_RE_group2(strip(Line(i))))
       IN  IF current[1].type = "slide"
           THEN /\ current' = Some(SlideField(current[1], key, val).b)
                /\ i' = SlideField(current[1], key, val).i
           ELSE /\ current' = Some(QuizField(current[1], key, val))
                /\ i' = i + 1
    /\ UNCHANGED <<entry, req, rgb, prior, text, lines, blocks, pc, Rest>>

\* lines 217-225: a freeform line of an open Slide starts a text block
FreeformChunk ==
    IF current # None /\ current[1].type = "slide" /\ strip(Line(i)) # <<>>
    THEN collect_textblock(i)
    ELSE [out |-> <<>>, j |-> i]

ParseFreeform ==
    /\ Parsing
    /\ ~IsHeader(strip(Line(i)))
    /\ current # None
    /\ ~FIELD_RE_match(strip(Line(i)))
    /\ FreeformChunk.out # <<>>
    /\ current' = Some([current[1] EXCEPT
                            !.text = PyList(current[1].text.list \o FreeformChunk.out)])
    /\ i' = FreeformChunk.j
    /\ UNCHANGED <<entry, req, rgb, prior, text, lines, blocks, pc, Rest>>

\* line 227: everything else only moves to the next line
ParseSkip ==
    /\ Parsing
    /\ ~IsHeader(strip(Line(i)))
    /\ \/ current = None
       \/ ~FIELD_RE_match(strip(Line(i))) /\ FreeformChunk.out = <<>>
    /\ i' = i + 1
    /\ UNCHANGED <<entry, req, rgb, prior, text, lines, current, blocks, pc, Rest>>

\* lines 229-255: flush the last block, normalize, return
ParseReturn ==
    /\ pc = "parse"
    /\ i >= Len(lines)
    /\ blocks' = [k \in 1..Len(Flushed) |-> Normalize(Flushed[k])]
    /\ pc' = "parsed"
    /\ UNCHANGED <<entry, req, rgb, prior, text, lines, i, current, Rest>>

--------------------------------------------------------------------------
(* gen_pptx.py *)

\* _to_lines on a str
str_lines(s) == nonempty([k \in 1..Len(splitlines(s)) |-> strip(splitlines(s)[k])])

RECURSIVE list_lines(_)
list_lines(l) == IF l = <<>> THEN <<>> ELSE str_lines(Head(l)) \o list_lines(Tail(l))

\* _to_lines(val), val a str or a list of str
to_lines(val) == IF "str" \in DOMAIN val THEN str_lines(val.str) ELSE list_lines(val.list)

\* _to_lines(b.get(key)): a missing key is None and gives []
field_lines(b, key) == IF key \in DOMAIN b THEN to_lines(b[key]) ELSE <<>>

\* s[:m] and s[m:] for any integer m
slice_to(s, m) ==
    IF m >= 0 THEN Take(s, m)
    ELSE IF Len(s) + m > 0 THEN Take(s, Len(s) + m) ELSE <<>>

slice_from(s, m) ==
    IF m >= 0 THEN Drop(s, IF m < Len(s) THEN m ELSE Len(s))
    ELSE IF Len(s) + m > 0 THEN Drop(s, Len(s) + m) ELSE s

\* _chunk_content: the generator when it is created; nothing of its body has run
chunk_content(text_lines, bullet_lines, max_text, max_bullets) ==
    [text |-> text_lines, bullets |-> bullet_lines,
     max_text |-> max_text, max_bullets |-> max_bullets,
     branch |-> IF text_lines # <<>> /\ bullet_lines # <<>> THEN "both"
                ELSE IF text_lines # <<>> THEN "text"
                ELSE IF bullet_lines # <<>> THEN "bullets"
                ELSE "none",
     started |-> FALSE]

\* _chunk_content advancing the bullets by the text cap in its first branch
chunk_advance_one_cap(g) ==
    IF ~g.started THEN [g EXCEPT !.started = TRUE]
    ELSE IF g.branch = "both"
    THEN [g EXCEPT !.text = slice_from(g.text, g.max_text),
                   !.bullets = slice_from(g.bullets, g.max_text)]
    ELSE IF g.branch = "text" THEN [g EXCEPT !.text = slice_from(g.text, g.max_text)]
    ELSE IF g.branch = "bullets"
    THEN [g EXCEPT !.bullets = slice_from(g.bullets, g.max_bullets)]
    ELSE [g EXCEPT !.branch = "spent"]

\* the statements after a yield, run when the generator is resumed
chunk_advance(g) ==
    IF ~g.started THEN [g EXCEPT !.started = TRUE]
    ELSE IF g.branch = "both"
    THEN [g EXCEPT !.text = slice_from(g.text, g.max_text),
                   !.bullets = slice_from(g.bullets, g.max_bullets)]
    ELSE IF g.branch = "text" THEN [g EXCEPT !.text = slice_from(g.text, g.max_text)]
    ELSE IF g.branch = "bullets"
    THEN [g EXCEPT !.bullets = slice_from(g.bullets, g.max_bullets)]
    ELSE [g EXCEPT !.branch = "spent"]

\* the loop condition the resumed generator meets
chunk_more(g) ==
    IF g.branch = "both" THEN g.text # <<>> \/ g.bullets # <<>>
    ELSE IF g.branch = "text" THEN g.text # <<>>
    ELSE IF g.branch = "bullets" THEN g.bullets # <<>>
    ELSE g.branch = "none"

\* the pair the generator yields
chunk_yield(g) ==
    [text |-> IF g.branch \in {"both", "text"} THEN slice_to(g.text, g.max_text) ELSE <<>>,
     bullets |-> IF g.branch \in {"both", "bullets"}
                 THEN slice_to(g.bullets, g.max_bullets) ELSE <<>>]

\* _extract_quiz_choices
extract_quiz_choices(b) ==
    LET abcd == <<strip(Get(b, "A", <<>>)), strip(Get(b, "B", <<>>)),
                  strip(Get(b, "C", <<>>)), strip(Get(b, "D", <<>>))>>
        ch == Get(b, "choices", <<>>)
    IN  IF \E k \in 1..4 : abcd[k] # <<>> THEN abcd
        ELSE [k \in 1..4 |-> IF k <= Len(ch) THEN strip(ch[k]) ELSE <<>>]

\* lines 393-395: one bullet "<Letter>: <text>" per non-empty option
RECURSIVE option_bullets(_, _)
option_bullets(opts, k) ==
    IF k > 4 THEN <<>>
    ELSE (IF opts[k] # <<>> THEN <<(<<UpperLetters[k]>> \o <<":"," ">> \o opts[k])>> ELSE <<>>)
         \o option_bullets(opts, k + 1)

\* the value of a hexadecimal digit, -1 for any other character
HexDigits == <<"0", "1", "2", "3", "4", "5", "6", "7", "8", "9", "a", "b", "c", "d", "e", "f">>

HexVal(c) ==
    IF \E k \in 1..16 : HexDigits[k] = LowerCh(c)
    THEN (CHOOSE k \in 1..16 : HexDigits[k] = LowerCh(c)) - 1
    ELSE -1

\* int(x, 16) for a str x of at most two characters: blanks around the number
\* and one sign are accepted; None stands for ValueError
int16(x) ==
    LET t == strip(x)
        signed == t # <<>> /\ Head(t) \in {"+", "-"}
        digits == IF signed THEN Tail(t) ELSE t
    IN  IF digits = <<>> \/ \E k \in 1..Len(digits) : HexVal(digits[k]) < 0 THEN None
        ELSE LET n == IF Len(digits) = 1 THEN HexVal(digits[1])
                      ELSE 16 * HexVal(digits[1]) + HexVal(digits[2])
             IN  Some(IF signed /\ Head(t) = "-" THEN 0 - n ELSE n)

\* "".join(ch * 2 for ch in s)
RECURSIVE doubled(_)
doubled(s) == IF s = <<>> THEN <<>> ELSE <<Head(s), Head(s)>> \o doubled(Tail(s))

\* RGBColor(17, 17, 17), the value of the except branch
DefaultRGB == <<17, 17, 17>>

\* _hex_to_rgb; RGBColor raises ValueError for a component outside 0..255
hex_to_rgb(hexstr) ==
    LET s0 == lstrip_chars(strip(hexstr), {"#"})
        s == IF Len(s0) = 3 THEN doubled(s0) ELSE s0
        r == int16(Slice(s, 0, 2))
        g == int16(Slice(s, 2, 4))
        b == int16(Slice(s, 4, 6))
    IN  IF r = None \/ g = None \/ b = None THEN DefaultRGB
        ELSE IF \E c \in {r[1], g[1], b[1]} : c < 0 \/ c > 255 THEN DefaultRGB
        ELSE <<r[1], g[1], b[1]>>

\* lines 318-342
TitleSlide(course_title) ==
    [block |-> -1, title |-> course_title,
     text |-> <<<<"S","t","o","r","y","b","o","a","r","d"," ","g","e","n","e","r","a","t","e","d"," ","a","u","t","o","m","a","t","i","c","a","l","l","y">>>>,
     bullets |-> <<>>, notes |-> <<>>, image |-> FALSE]

\* lines 354-411: the one slide of a "quiz" block
QuizSlide(b, at) ==
    LET answer == remove_spaces(Get(b, "answer", <<>>))
        q0 == Get(b, "question", <<>>)
        question == IF "," \in Range(answer)
                    THEN strip(q0 \o <<"\n","\n","(","S","e","l","e","c","t"," ","a","l","l"," ","t","h","a","t"," ","a","p","p","l","y",")">>) ELSE q0
        fc == Get(b, "feedback_correct", <<>>)
        fi == Get(b, "feedback_incorrect", <<>>)
        note_text == (IF fc # <<>> THEN <<"C","o","r","r","e","c","t",":"," ">> \o fc \o <<"\n">> ELSE <<>>)
                     \o (IF fi # <<>> THEN <<"I","n","c","o","r","r","e","c","t",":"," ">> \o fi \o <<"\n">> ELSE <<>>)
    IN  [block |-> at, title |-> strip(OrStr(Get(b, "title", <<>>), <<"Q","u","i","z">>)),
         text |-> IF question # <<>> THEN <<question>> ELSE <<>>,
         bullets |-> option_bullets(extract_quiz_choices(b), 1),
         notes |-> splitlines(note_text), image |-> FALSE]

\* the chunk loop writing the notes on every chunk, not only the first
ChunkSlideNotesEvery(b, at, chunk_idx, c, picture) ==
    LET title == strip(OrStr(Get(b, "title", <<>>), <<"S","l","i","d","e">>))
        narration == strip(Get(b, "narration", <<>>))
    IN  [block |-> at,
         title |-> IF chunk_idx = 1 THEN title ELSE title \o <<" ","(","c","o","n","t",".",")">>,
         text |-> c.text, bullets |-> c.bullets,
         notes |-> IF narration # <<>> THEN splitlines(narration) ELSE <<>>,
         image |-> picture]

\* the chunk loop giving up the rest of the slide when the picture is not placed
ChunkSlideLostWithoutPicture(b, at, chunk_idx, c, picture) ==
    LET title == strip(OrStr(Get(b, "title", <<>>), <<"S","l","i","d","e">>))
        narration == strip(Get(b, "narration", <<>>))
        lost == chunk_idx = 1 /\ strip(Get(b, "image", <<>>)) # <<>> /\ ~picture
    IN  [block |-> at,
         title |-> IF chunk_idx = 1 THEN title ELSE title \o <<" ","(","c","o","n","t",".",")">>,
         text |-> IF lost THEN <<>> ELSE c.text,
         bullets |-> IF lost THEN <<>> ELSE c.bullets,
         notes |-> IF chunk_idx = 1 /\ narration # <<>> /\ ~lost THEN splitlines(narration) ELSE <<>>,
         image |-> picture]

\* lines 431-493: the physical slide of one chunk
ChunkSlide(b, at, chunk_idx, c, picture) ==
    LET title == strip(OrStr(Get(b, "title", <<>>), <<"S","l","i","d","e">>))
        narration == strip(Get(b, "narration", <<>>))
    IN  [block |-> at,
         title |-> IF chunk_idx = 1 THEN title ELSE title \o <<" ","(","c","o","n","t",".",")">>,
         text |-> c.text, bullets |-> c.bullets,
         notes |-> IF chunk_idx = 1 /\ narration # <<>> THEN splitlines(narration) ELSE <<>>,
         image |-> picture]

\* max_text_per_slide, max_bullets_per_slide
DefaultMax == 6

\* [^A-Za-z0-9._-]
SlugCh(c) == ~(IsWord(c) /\ c # "_") /\ c \notin {".", "_", "-"}

\* _slug_re.sub("-", name): every run of other characters becomes one "-"
RECURSIVE slug_sub(_, _)
slug_sub(s, inrun) ==
    IF s = <<>> THEN <<>>
    ELSE IF SlugCh(Head(s)) THEN (IF inrun THEN <<>> ELSE <<"-">>) \o slug_sub(Tail(s), TRUE)
    ELSE <<Head(s)>> \o slug_sub(Tail(s), FALSE)

\* _sanitize_filename
sanitize_filename(name, default) ==
    IF name = <<>> THEN default ELSE OrStr(slug_sub(strip(name), FALSE), default)

\* app.py:69 base_name
BaseName == sanitize_filename(req.filename, <<"e","x","p","o","r","t">>)

\* app.py:71-72 the colours handed to build_storyboard_pptx; a caller of the
\* renderer passes them as they are
FontColor ==
    IF entry \in {"blocks", "repeat"} THEN req.font_color ELSE strip(OrStr(req.font_color, <<"#","1","1","1","1","1","1">>))

BgColor ==
    IF entry \in {"blocks", "repeat"} THEN req.bg_color ELSE strip(OrStr(req.bg_color, <<"#","F","F","F","F","F","F">>))

\* app.py:197-202, 206-211, 227: send_file(..., download_name); entries are the
\* names written into the archive (app.py:224-225)
SendFile(name, entries) == [status |-> 200, name |-> name, entries |-> entries]

\* app.py:183, 229: a 400 with a message
ClientError == [status |-> 400, name |-> <<>>, entries |-> <<>>]

Formats == {"pptx", "csv", "zip", "xml"}

\* the dispatch treating every unknown format as the default, pptx
DispatchDefaultsToDeck ==
    /\ pc = "parsed"
    /\ \E f \in Formats :
        /\ fmt' = f
        /\ pc' = IF f = "csv" THEN "csv" ELSE "pptx"
        /\ resp' = resp
    /\ UNCHANGED <<entry, req, rgb, prior, text, lines, i, current, blocks, caps, deck, bi, chunk, rows>>

\* app.py:188-229: which renderer runs first
Dispatch ==
    /\ pc = "parsed"
    /\ \E f \in Formats :
        /\ fmt' = f
        /\ pc' = IF f \in {"pptx", "zip"} THEN "pptx" ELSE IF f = "csv" THEN "csv" ELSE "done"
        /\ resp' = IF f \in {"pptx", "zip", "csv"} THEN resp ELSE Some(ClientError)
    /\ UNCHANGED <<entry, req, rgb, prior, text, lines, i, current, blocks, caps, deck, bi, chunk, rows>>

\* gen_pptx.py:313-342
RenderTitle ==
    /\ pc = "pptx"
    /\ rgb' = Some([text |-> hex_to_rgb(FontColor), bg |-> hex_to_rgb(BgColor)])
    /\ deck' = <<TitleSlide(BaseName)>>
    /\ bi' = 0
    /\ pc' = "render"
    /\ UNCHANGED <<entry, req, prior, text, lines, i, current, blocks, fmt, caps, chunk, rows, resp>>

\* lines 345-426: one pass of "for b in blocks" up to the chunk loop
RenderBlock ==
    /\ pc = "render"
    /\ chunk = None
    /\ bi < Len(blocks)
    /\ LET b == blocks[bi + 1]
       IN  IF b.type = "quiz"
           THEN /\ deck' = Append(deck, QuizSlide(b, bi))
                /\ bi' = bi + 1
                /\ chunk' = None
           ELSE IF b.type # "slide"
           THEN /\ bi' = bi + 1
                /\ UNCHANGED <<deck, chunk>>
           ELSE \* _download_if_url: whether a file comes back is the environment's
                /\ \E found \in (IF strip(Get(b, "image", <<>>)) # <<>> THEN BOOLEAN ELSE {FALSE}) :
                     chunk' = Some([gen |-> chunk_content(field_lines(b, "text"),
                                                          field_lines(b, "bullets"),
                                                          caps.text, caps.bullets),
                                    chunk_idx |-> 0, img_path |-> found])
                /\ UNCHANGED <<deck, bi>>
    /\ UNCHANGED <<entry, req, rgb, prior, text, lines, i, current, blocks, pc, fmt, caps, rows, resp>>

\* lines 430-493: the generator yields and one physical slide is added
RenderChunk ==
    /\ pc = "render"
    /\ chunk # None
    /\ chunk[1].chunk_idx < MaxChunks
    /\ LET g == chunk_advance(chunk[1].gen)
           idx == chunk[1].chunk_idx + 1
       IN  /\ chunk_more(g)
           \* _place_image returns None when add_picture fails
           /\ \E placed \in (IF chunk[1].img_path /\ idx = 1 THEN BOOLEAN ELSE {FALSE}) :
                deck' = Append(deck, ChunkSlide(blocks[bi + 1], bi, idx, chunk_yield(g), placed))
           /\ chunk' = Some([chunk[1] EXCEPT !.gen = g, !.chunk_idx = idx])
    /\ UNCHANGED <<entry, req, rgb, prior, text, lines, i, current, blocks, pc, fmt, caps, bi, rows, resp>>

\* the chunk loop having consumed the block's own narration and lists
RenderSlideEndConsumed ==
    /\ pc = "render"
    /\ chunk # None
    /\ ~chunk_more(chunk_advance(chunk[1].gen))
    /\ chunk' = None
    /\ bi' = bi + 1
    /\ blocks' = [blocks EXCEPT ![bi + 1] =
                      [key \in DOMAIN @ |-> IF key \in {"text", "bullets"} THEN PyList(<<>>)
                                            ELSE IF key = "narration" THEN <<>> ELSE @[key]]]
    /\ UNCHANGED <<entry, req, rgb, prior, text, lines, i, current, pc, fmt, caps, deck, rows, resp>>

\* line 430: the generator is exhausted, the for loop over blocks goes on
RenderSlideEnd ==
    /\ pc = "render"
    /\ chunk # None
    /\ ~chunk_more(chunk_advance(chunk[1].gen))
    /\ chunk' = None
    /\ bi' = bi + 1
    /\ UNCHANGED <<entry, req, rgb, prior, text, lines, i, current, blocks, pc, fmt, caps, deck, rows, resp>>

\* lines 495-498, then app.py:197 or app.py:223
RenderSave ==
    /\ pc = "render"
    /\ chunk = None
    /\ bi >= Len(blocks)
    /\ pc' = IF fmt = "zip" THEN "csv" ELSE "done"
    /\ resp' = IF fmt = "zip" THEN resp ELSE Some(SendFile(BaseName \o <<".","p","p","t","x">>, <<>>))
    /\ UNCHANGED <<entry, req, rgb, prior, text, lines, i, current, blocks, fmt, caps, deck, bi, chunk, rows>>

--------------------------------------------------------------------------
(* gen_csv.py *)

\* _get_letter without the test for a negative index: "ABCD"[idx] counts from the end
get_letter_from_end(idx) ==
    IF idx = None THEN <<>>
    ELSE IF idx[1] < -4 THEN <<>>
    ELSE IF idx[1] < 0 THEN <<UpperLetters[idx[1] + 5]>>
    ELSE IF idx[1] < 4 THEN <<UpperLetters[idx[1] + 1]>>
    ELSE <<>>

\* _get_letter
get_letter(idx) ==
    IF idx = None THEN <<>>
    ELSE IF idx[1] < 0 THEN <<>>
    ELSE IF idx[1] < 4 THEN <<UpperLetters[idx[1] + 1]>>
    ELSE <<>>

\* _row_from_quiz_single
row_from_quiz_single(b) ==
    LET choices == Get(b, "choices", <<>>)
        four == [k \in 1..4 |-> IF k <= Len(choices) THEN choices[k] ELSE <<>>]
    IN  <<Get(b, "title", <<>>), Get(b, "question", <<>>),
          four[1], four[2], four[3], four[4],
          get_letter(Get(b, "correctIndex", None)),
          Get(b, "feedbackCorrect", <<>>), Get(b, "feedbackIncorrect", <<>>)>>

\* b.get(k1) or b.get(k2) or ... or ""
RECURSIVE FirstOf(_, _)
FirstOf(b, keys) ==
    IF keys = <<>> THEN <<>>
    ELSE IF Get(b, Head(keys), <<>>) # <<>> THEN b[Head(keys)]
    ELSE FirstOf(b, Tail(keys))

\* line 38: the Correct cell of a letter-form quiz
legacy_correct(answer) == upper(strip(answer))

\* _row_from_quiz_legacy
row_from_quiz_legacy(b) ==
    <<Get(b, "title", <<>>), Get(b, "question", <<>>),
      Get(b, "A", <<>>), Get(b, "B", <<>>), Get(b, "C", <<>>), Get(b, "D", <<>>),
      legacy_correct(FirstOf(b, <<"Answer", "answer", "Correct", "correct">>)),
      FirstOf(b, <<"feedback_correct", "FeedbackCorrect">>),
      FirstOf(b, <<"feedback_incorrect", "FeedbackIncorrect">>)>>

\* line 51
HeaderRow ==
    <<<<"T","i","t","l","e">>, <<"Q","u","e","s","t","i","o","n">>, <<"A">>, <<"B">>, <<"C">>, <<"D">>,
      <<"C","o","r","r","e","c","t"," ","(","S","i","n","g","l","e"," ","o","r"," ","M","u","l","t","i","p","l","e",")">>, <<"F","e","e","d","b","a","c","k","C","o","r","r","e","c","t">>, <<"F","e","e","d","b","a","c","k","I","n","c","o","r","r","e","c","t">>>>

\* build_quiz_csv lines 49-51
CsvHeader ==
    /\ pc = "csv"
    /\ rows' = <<HeaderRow>>
    /\ bi' = 0
    /\ pc' = "csvloop"
    /\ UNCHANGED <<entry, req, rgb, prior, text, lines, i, current, blocks, fmt, caps, deck, chunk, resp>>

\* build_quiz_csv writing letter-form quizzes only
csv_rows_legacy_only(b) == IF b.type = "quiz" THEN <<row_from_quiz_legacy(b)>> ELSE <<>>

\* the rows block b adds: lines 56-62
csv_rows_of(b) ==
    IF b.type = "quiz" THEN <<row_from_quiz_legacy(b)>>
    ELSE IF b.type = "quiz_single" THEN <<row_from_quiz_single(b)>>
    ELSE <<>>

\* build_quiz_csv lines 53-62: one pass of "for b in blocks"
CsvBlock ==
    /\ pc = "csvloop"
    /\ bi < Len(blocks)
    /\ rows' = rows \o csv_rows_of(blocks[bi + 1])
    /\ bi' = bi + 1
    /\ UNCHANGED <<entry, req, rgb, prior, text, lines, i, current, blocks, pc, fmt, caps, deck, chunk, resp>>

\* build_quiz_csv lines 64-65, then app.py:206 or app.py:224-227
CsvReturn ==
    /\ pc = "csvloop"
    /\ bi >= Len(blocks)
    /\ pc' = "done"
    /\ resp' = IF fmt = "zip"
               THEN Some(SendFile(BaseName \o <<".","z","i","p">>,
                                  <<BaseName \o <<".","p","p","t","x">>, BaseName \o <<".","c","s","v">>>>))
               ELSE Some(SendFile(BaseName \o <<".","c","s","v">>, <<>>))
    /\ UNCHANGED <<entry, req, rgb, prior, text, lines, i, current, blocks, fmt, caps, deck, bi, chunk, rows>>

--------------------------------------------------------------------------
(* app.py: the Tabular Importer *)

\* characters outside ASCII, each one character of a str
Bullet == "U+2022"
EnDash == "U+2013"
EmDash == "U+2014"

\* a NaN cell: what pandas hands over for an empty cell
NaN == [nan |-> TRUE]

\* str(cell) for a cell that is a str or NaN
cell_str(c) == IF "nan" \in DOMAIN c THEN <<"n","a","n">> ELSE c.str

\* app.py:172-174: row.iloc[k] if len(row) > k else ""
Cell(row, k) == IF Len(row) >= k THEN row[k] ELSE PyStr(<<>>)

\* str.replace(old, new), old not empty
RECURSIVE replace(_, _, _)
replace(s, old, new) ==
    IF s = <<>> THEN <<>>
    ELSE IF startswith(s, old) THEN new \o replace(Drop(s, Len(old)), old, new)
    ELSE <<Head(s)>> \o replace(Tail(s), old, new)

\* str.split(sep) for a one-character sep
RECURSIVE split(_, _)
split(s, sep) ==
    IF sep \notin Range(s) THEN <<s>>
    ELSE LET k == Min({j \in 1..Len(s) : s[j] = sep})
         IN  <<Take(s, k - 1)>> \o split(Drop(s, k), sep)

\* str.split(sep, 1) when sep is in s: what is before and after the first sep
split1(s, sep) ==
    LET k == Min({j \in 1..Len(s) : s[j] = sep})
    IN  <<Take(s, k - 1), Drop(s, k)>>

\* _split_body_to_lines
split_body_to_lines(body) ==
    LET raw == replace(replace(replace(replace(body, <<"<","b","r","/",">">>, <<"\n">>), <<"<","b","r",">">>, <<"\n">>),
                               <<"<","B","R","/",">">>, <<"\n">>), <<"<","B","R",">">>, <<"\n">>)
    IN  nonempty([k \in 1..Len(splitlines(raw)) |-> strip(splitlines(raw)[k])])

\* app.py:89
BULLET_PREFIXES == << <<"-"," ">>, <<Bullet, " ">>, <<"*"," ">>, <<EnDash, " ">>, <<EmDash, " ">> >>

\* app.py:150: the first prefix ln starts with, None when there is none
matched_prefix(ln) ==
    LET hits == {k \in 1..Len(BULLET_PREFIXES) : startswith(ln, BULLET_PREFIXES[k])}
    IN  IF hits = {} THEN None ELSE Some(BULLET_PREFIXES[Min(hits)])

\* app.py:150-160: whether ln counts as a bullet
is_bullet(ln) == matched_prefix(ln) # None \/ (startswith(ln, <<"-">>) /\ ~startswith(ln, <<"-"," ">>))

\* app.py:149-160: the entry appended to bullets for ln
bullet_entry(ln) ==
    IF matched_prefix(ln) # None THEN strip(Drop(ln, Len(matched_prefix(ln)[1])))
    ELSE IF startswith(ln, <<"-">>) /\ ~startswith(ln, <<"-"," ">>) THEN strip(Drop(ln, 1))
    ELSE ln

\* app.py:139-144: the candidate lines of a slide row
slide_lines(body) ==
    LET ls == split_body_to_lines(body)
        parts == split(body, ";")
    IN  IF Len(ls) <= 1 /\ ";" \in Range(body) /\ "\n" \notin Range(body)
        THEN nonempty([k \in 1..Len(parts) |-> strip(parts[k])])
        ELSE ls

\* app.py:117-121: the field map of a quiz row
RECURSIVE quiz_fields(_, _)
quiz_fields(ls, fields) ==
    IF ls = <<>> THEN fields
    ELSE IF ":" \notin Range(Head(ls)) THEN quiz_fields(Tail(ls), fields)
    ELSE LET key == lower(strip(split1(Head(ls), ":")[1]))
             val == strip(split1(Head(ls), ":")[2])
         IN  quiz_fields(Tail(ls),
                         [x \in DOMAIN fields \cup {key} |-> IF x = key THEN val ELSE fields[x]])

\* fields.get(key, "")
fields_get(fields, key) == IF key \in DOMAIN fields THEN fields[key] ELSE <<>>

\* app.py:100-135: the Quiz block of a row whose title starts with QUIZ
quiz_block(title_raw, body) ==
    LET quiz_title == IF ":" \in Range(title_raw) THEN strip(split1(title_raw, ":")[2])
                      ELSE title_raw
        fields == quiz_fields(split_body_to_lines(body), [x \in {<<"t","i","t","l","e">>} |-> quiz_title])
    IN  [type |-> "quiz",
         title |-> fields_get(fields, <<"t","i","t","l","e">>),
         question |-> fields_get(fields, <<"q","u","e","s","t","i","o","n">>),
         A |-> fields_get(fields, <<"a">>), B |-> fields_get(fields, <<"b">>),
         C |-> fields_get(fields, <<"c">>), D |-> fields_get(fields, <<"d">>),
         answer |-> upper(remove_spaces(fields_get(fields, <<"a","n","s","w","e","r">>))),
         feedback_correct |-> fields_get(fields, <<"f","e","e","d","b","a","c","k","c","o","r","r","e","c","t">>),
         feedback_incorrect |-> fields_get(fields, <<"f","e","e","d","b","a","c","k","i","n","c","o","r","r","e","c","t">>)]

\* app.py:139-168: the Slide block of any other row
slide_block(title_norm, body, narration) ==
    LET ls == slide_lines(body)
        bullets == [k \in 1..Len(ls) |-> bullet_entry(ls[k])]
        is_bulleted == \E k \in 1..Len(ls) : is_bullet(ls[k])
    IN  IF is_bulleted
        THEN [type |-> "slide", title |-> title_norm, narration |-> narration,
              bullets |-> PyList(bullets)]
        ELSE [type |-> "slide", title |-> title_norm, narration |-> narration,
              text |-> PyStr(join_nl(bullets))]

\* app.py:92-95: the title and the body row_to_block works on
TitleRaw(title) == strip(cell_str(title))
BodyOf(body) == replace(cell_str(body), <<"\\", "n">>, <<"\n">>)

\* row_to_block
row_to_block(title, body, narration) ==
    IF startswith(upper(TitleRaw(title)), <<"Q","U","I","Z">>)
    THEN quiz_block(TitleRaw(title), BodyOf(body))
    ELSE slide_block(OrStr(TitleRaw(title), <<"S","l","i","d","e">>), BodyOf(body), cell_str(narration))

\* str.endswith
endswith(s, p) == Len(s) >= Len(p) /\ SubSeq(s, Len(s) - Len(p) + 1, Len(s)) = p

\* app.py:77-86: the extensions _auto_blocks_from_table reads
Supported(filename) ==
    \E ext \in { <<".","c","s","v">>, <<".","t","s","v">>, <<".","x","l","s","x">>, <<".","x","l","s">> } : endswith(lower(filename), ext)

\* app.py:179: "uploaded and uploaded.filename"
HasUpload == req.upload # None /\ req.upload[1].filename # <<>>

\* app.py:179-186: the one parse path of the request is chosen
Route ==
    /\ pc = "start"
    /\ IF HasUpload
       THEN /\ entry' = "upload"
            /\ pc' = "import"
            /\ lines' = <<>>
       ELSE /\ entry' = "script"
            /\ pc' = "parse"
            /\ lines' = [k \in 1..Len(splitlines(text)) |-> rstrip(splitlines(text)[k])]
    /\ UNCHANGED <<req, text, i, current, blocks, Rest, rgb, prior>>

\* app.py:77-86, 182-183: the file is not a table pandas reads; the request ends
ImportFail ==
    /\ pc = "import"
    /\ i = 0
    /\ ~Supported(req.upload[1].filename) \/ req.upload[1].table = None
    /\ pc' = "done"
    /\ resp' = Some(ClientError)
    /\ UNCHANGED <<entry, req, rgb, prior, text, lines, i, current, blocks, fmt, caps, deck, bi,
                   chunk, rows>>

\* app.py:171-175: one pass of "for _, row in df.iterrows()"
ImportRow ==
    /\ pc = "import"
    /\ Supported(req.upload[1].filename)
    /\ req.upload[1].table # None
    /\ i < Len(req.upload[1].table[1])
    /\ LET row == req.upload[1].table[1][i + 1]
       IN  blocks' = Append(blocks, row_to_block(Cell(row, 1), Cell(row, 2), Cell(row, 3)))
    /\ i' = i + 1
    /\ UNCHANGED <<entry, req, rgb, prior, text, lines, current, pc, Rest>>

\* app.py:176, 181: the importer returns the blocks
ImportReturn ==
    /\ pc = "import"
    /\ Supported(req.upload[1].filename)
    /\ req.upload[1].table # None
    /\ i >= Len(req.upload[1].table[1])
    /\ pc' = "parsed"
    /\ UNCHANGED <<entry, req, rgb, prior, text, lines, i, current, blocks, Rest>>

--------------------------------------------------------------------------
(* The requests of the model *)

\* a request without an upload whose form leaves filename and colours to their
\* defaults (app.py:69-72)
DefaultReq == [upload |-> None, filename |-> <<>>, font_color |-> <<>>, bg_color |-> <<>>]

\* the defaults of build_storyboard_pptx's own parameters (gen_pptx.py:279-283)
DefaultArgs ==
    [upload |-> None, filename |-> <<>>, font_color |-> <<"#","1","1","1","1","1","1">>, bg_color |-> <<"#","F","F","F","F","F","F">>]

\* the lines a generated script is made of
LineSet ==
    { <<"#","#"," ","S","l","i","d","e",":"," ","T">>, <<"#","#"," ","Q","u","i","z",":"," ","S","i","n","g","l","e"," ","C","h","o","i","c","e">>, <<"T","e","x","t",":"," "," ","a"," ">>, <<"B","u","l","l","e","t","s",":">>, <<" ","-"," ","b"," ">>,
      <<" ","x"," ">>, <<>>, <<"N","a","r","r","a","t","i","o","n",":"," ","n">>, <<"A","n","s","w","e","r",":"," ","A",",","C">>, <<"A","n","s","w","e","r",":"," ","B">> }

\* spec.md section 8, end-to-end scenario A
ScenarioA ==
    <<"#","#"," ","S","l","i","d","e",":"," ","W","e","l","c","o","m","e","\n","T","e","x","t",":","\n","H","e","l","l","o"," ","t","h","e","r","e","\n","B","u","l","l","e","t","s",":","\n","-"," ","P","o","i","n","t"," ","o","n","e","\n","-"," ","P","o","i","n","t"," ","t","w","o","\n","#","#"," ","Q","u","i","z",":"," ","S","i","n","g","l","e"," ","C","h","o","i","c","e","\n","Q","u","e","s","t","i","o","n",":"," ","2","+","2","?","\n","A",":"," ","3","\n","B",":"," ","4","\n","A","n","s","w","e","r",":"," ","B">>

Scenarios ==
    { ScenarioA,
      <<"#","#"," ","S","l","i","d","e",":"," ","T","\n","T","e","x","t",":"," ","a","\n","\n","x","\n","N","o","t","e","s",":"," ","n","\n">>,
      <<"#","#","s","l","i","d","e",":","T","\r","\n","b","o","d","y",":"," ","a","\r","\n"," ","b","\r","\n","-"," ","c","\r","\n","d">>,
      <<"#","#"," ","Q","U","I","Z",":"," "," ","s","i","n","g","l","e"," "," ","c","h","o","i","c","e","\n","C","o","r","r","e","c","t",":"," ","A",",","C","\n","A",":"," ","*","y","\n","B",":"," ","z">>,
      <<"#","#"," ","S","l","i","d","e",":"," ","T","\n","I","m","a","g","e",":"," ","p",".","p","n","g","\n","B","u","l","l","e","t","s",":","\n","-"," ","b","1","\n","-"," ","b","2","\n","-"," ","b","3","\n","-"," ","b","4","\n","-"," ","b","5","\n","-"," ","b","6","\n","-"," ","b","7">> }

Texts ==
    {join_nl(s) : s \in UNION {[1..n -> LineSet] : n \in 0..MaxLines}} \cup Scenarios

\* the lines a generated row body is made of
BodyLineSet ==
    { <<"a">>, <<"-"," ","b">>, <<"-">>, <<"-","c">>, <<Bullet, " ", "d">>, <<" ","x"," ",";","y">>,
      <<"A","n","s","w","e","r",":"," ","a",","," ","c">>, <<"T","i","t","l","e",":"," ","X">>, <<"Q","u","e","s","t","i","o","n",":"," ","q","?">> }

Bodies == {join_nl(s) : s \in UNION {[1..n -> BodyLineSet] : n \in 0..MaxBodyLines}}

\* spec.md section 8, end-to-end scenario B
ScenarioB ==
    << PyStr(<<"Q","U","I","Z",":"," ","S","a","f","e","t","y">>), PyStr(<<"Q","u","e","s","t","i","o","n",":"," ","I","s"," ","f","i","r","e"," ","h","o","t","?","\n","A",":"," ","Y","e","s","\n","B",":"," ","N","o","\n","A","n","s","w","e","r",":"," ","A">>),
       PyStr(<<>>) >>

\* rows of one, two and three cells; an empty cell of a read table is NaN
TableRows ==
    {<<PyStr(t), PyStr(b), PyStr(<<"n">>)>> : t \in { <<"T">>, <<"Q","U","I","Z",":"," ","S","a","f","e","t","y">> }, b \in Bodies}
    \cup { ScenarioB,
           <<NaN, NaN, NaN>>,
           <<PyStr(<<"T">>)>>,
           <<PyStr(<<" ","q","u","i","z"," ","s","i","n","g","l","e",":"," ","a",":","b"," ">>), PyStr(<<"x",":"," ","1","<","b","r",">","F","e","e","d","b","a","c","k","C","o","r","r","e","c","t",":"," ","o","k","\\","n","D",":"," ","d","\n","a","n","s","w","e","r"," ",":"," ","b"," ",",","d">>), NaN>>,
           <<PyStr(<<"Q","u","i","z","z","e","s">>), PyStr(<<"A","n","s","w","e","r",":"," ","A">>)>>,
           <<PyStr(<<"T">>), PyStr(<<"a",";"," ","-"," ","b",";",";","c">>)>>,
           <<PyStr(<<"T">>), PyStr(<<"*", " ", "a", "<", "B", "R", "/", ">", "b", "\\", "n", EmDash, " ", "c">>), NaN>>,
           <<PyStr(<<"T">>), PyStr(<<"a","<","b","r",">","b",";","c">>), PyStr(<<"n","1","\n","n","2">>)>> }

MixRows == { ScenarioB, <<PyStr(<<"T">>), PyStr(<<"-"," ","a","\n","-">>)>>, <<PyStr(<<"T">>), PyStr(<<"a","\n","b">>), NaN>> }

Tables ==
    {<<r>> : r \in TableRows} \cup UNION {[1..n -> MixRows] : n \in 0..MaxRows}

\* the uploads: a table pandas reads, a name it does not read, a file it fails
\* to decode (table None), and a file part without a filename
Uploads ==
    {[filename |-> <<"t",".","c","s","v">>, table |-> Some(t)] : t \in Tables}
    \cup { [filename |-> <<"T",".","X","L","S","X">>, table |-> Some(<<ScenarioB>>)],
           [filename |-> <<"t",".","t","x","t">>, table |-> Some(<<ScenarioB>>)],
           [filename |-> <<"t",".","c","s","v">>, table |-> None],
           [filename |-> <<>>, table |-> Some(<<ScenarioB>>)] }

\* the colour strings of a form
ColorSet ==
    UNION {[1..n -> {"#", "a", "9", "g"}] : n \in 0..MaxHex}
    \cup { <<"#","a","b","c">>, <<"#","A","1","b","2","C","3">>, <<"a","1","b","2","c","3">>, <<" ","#","f","f","f"," ">>, <<"#","#","f","f","f">>, <<"n","o","t","a","c","o","l","o","r">>,
           <<"1","2","3","4">>, <<"1","2","3","4","5">>, <<"1","2","3","4","5","6","7">>, <<"#","1","2","3","4","5","6","7","8">>, <<"1","2","3","4","5","g">>, <<"+","1","+","2","+","3">>,
           <<"-","1","-","2","-","3">>, <<"#","f"," ","f"," ","f"," ">>, <<"#","f","f">> }

Filenames == { <<>>, <<" ","m","y"," ","d","e","c","k","!">>, <<"a","_","b",".","c","-","d">>, <<" "," ">> }

Requests ==
    {[DefaultReq EXCEPT !.upload = Some(u)] : u \in Uploads}
    \cup {[DefaultReq EXCEPT !.font_color = c] : c \in ColorSet}
    \cup {[DefaultReq EXCEPT !.bg_color = c] : c \in ColorSet}
    \cup {[DefaultReq EXCEPT !.filename = f] : f \in Filenames}

\* the request has been read (app.py:65-72); either any script with a default
\* form, or any request with a short script
InitRequest ==
    /\ entry = "request"
    /\ \/ text \in Texts /\ req = DefaultReq
       \/ text = <<"#","#"," ","S","l","i","d","e",":"," ","T">> /\ req \in Requests
    /\ lines = <<>>
    /\ i = 0
    /\ current = None
    /\ blocks = <<>>
    /\ pc = "start"
    /\ fmt = ""
    /\ caps = [text |-> DefaultMax, bullets |-> DefaultMax]
    /\ deck = <<>>
    /\ bi = 0
    /\ chunk = None
    /\ rows = <<>>
    /\ resp = None
    /\ rgb = None
    /\ prior = <<>>

\* a str of one letter and a two-digit number, all different
Item(letter, k) == <<letter, Digits[(k \div 10) + 1], Digits[(k % 10) + 1]>>

ItemList(letter, n) == [k \in 1..n |-> Item(letter, k)]

\* a Slide block as build_storyboard_pptx documents it (gen_pptx.py:290-299)
SlideOf(T, B, rich) ==
    [type |-> "slide", title |-> <<" ","S">>,
     text |-> PyList(ItemList("t", T)), bullets |-> PyList(ItemList("b", B)),
     narration |-> IF rich THEN <<"n","1","\n","n","2"," ">> ELSE <<>>,
     image |-> IF rich THEN <<"p",".","p","n","g">> ELSE <<>>, alt |-> <<>>]

\* a letter-form quiz block (gen_pptx.py:301-311, gen_csv.py:28)
QuizOf(answer) ==
    [type |-> "quiz", title |-> <<"Q">>, question |-> <<"q","?">>, A |-> <<"x">>, B |-> <<"y">>,
     C |-> <<"z">>, answer |-> answer, feedback_correct |-> <<"o","k">>]

\* an index-form quiz block (parser_md.py:55-64)
QuizSingleOf(idx) ==
    [type |-> "quiz_single", title |-> <<>>, question |-> <<"q","?">>,
     choices |-> <<<<"x">>, <<"y">>, <<>>, <<>>>>, correctIndex |-> idx,
     feedbackCorrect |-> <<>>, feedbackIncorrect |-> <<"n","o">>]

\* an index-form quiz block with n choices, as a caller of build_quiz_csv may pass it
QuizSingleWith(n, idx) ==
    [type |-> "quiz_single", title |-> <<"Q">>, question |-> <<"q","?">>,
     choices |-> ItemList("c", n), correctIndex |-> idx,
     feedbackCorrect |-> <<"o","k">>, feedbackIncorrect |-> <<>>]

\* a quiz block of either shape with its feedback under the snake-case key, the
\* camel-case key, both or neither (gen_csv.py:21-22, 39-40)
FeedbackQuiz(shape, snake, camel) ==
    [type |-> shape, title |-> <<"Q">>, question |-> <<"q","?">>]
    @@ (IF snake # None THEN [feedback_correct |-> snake[1], feedback_incorrect |-> snake[1]]
        ELSE <<>>)
    @@ (IF camel # None THEN [feedbackCorrect |-> camel[1], feedbackIncorrect |-> camel[1]]
        ELSE <<>>)

FeedbackBlocks ==
    {FeedbackQuiz(shape, snake, camel) :
        shape \in {"quiz", "quiz_single"},
        snake \in {None, Some(<<>>), Some(<<"s">>)},
        camel \in {None, Some(<<"c">>)}}

Indexes == {None} \cup {Some(k) : k \in -2..MaxIndex}

\* "all keys optional": a Slide with no title whose bullets are one str
BareSlide == [type |-> "slide", bullets |-> PyStr(<<"b","1","\n"," ","b","2"," ","\n","\n","b","3">>)]

Answers == { <<"B">>, <<"a",",","c">>, <<" ","a",","," ","C"," ">>, <<>>, <<"A",",">> }

SampleBlocks ==
    {SlideOf(T, B, rich) : T \in 0..MaxText, B \in 0..MaxBullets, rich \in BOOLEAN}
    \cup {SlideOf(0, 13, TRUE), BareSlide}
    \cup {QuizOf(a) : a \in Answers}
    \cup {QuizSingleOf(idx) : idx \in {None, Some(1)}}
    \cup {QuizSingleWith(n, idx) : n \in 0..MaxIndex, idx \in Indexes}
    \cup FeedbackBlocks

MixBlocks == {SlideOf(1, 1, FALSE), SlideOf(0, 3, TRUE), QuizOf(<<"a",",","c">>), QuizSingleOf(Some(1))}

BlockLists ==
    {<<b>> : b \in SampleBlocks} \cup UNION {[1..n -> MixBlocks] : n \in 0..MaxBlocks}

CapSet ==
    {[text |-> a, bullets |-> b] : a \in 1..MaxCap, b \in 1..MaxCap}
    \cup {[text |-> DefaultMax, bullets |-> DefaultMax]}

\* build_storyboard_pptx and build_quiz_csv are about to be called with a block list
InitBlocks ==
    /\ entry = "blocks"
    /\ req = DefaultArgs
    /\ text = <<>>
    /\ lines = <<>>
    /\ i = 0
    /\ current = None
    /\ blocks \in BlockLists
    /\ pc = "parsed"
    /\ fmt = ""
    /\ caps \in CapSet
    /\ deck = <<>>
    /\ bi = 0
    /\ chunk = None
    /\ rows = <<>>
    /\ resp = None
    /\ rgb = None
    /\ prior = <<>>

\* block lists a caller renders more than once
RepeatLists ==
    {<<b>> : b \in MixBlocks \cup {SlideOf(0, 13, TRUE), BareSlide, QuizSingleWith(5, Some(4))}}
    \cup { <<>>, <<SlideOf(2, 3, TRUE), QuizOf(<<" ","a",","," ","C"," ">>), QuizSingleOf(None)>> }

\* a caller is about to call the renderers, and will call them again
InitRepeat ==
    /\ entry = "repeat"
    /\ req = DefaultArgs
    /\ text = <<>>
    /\ lines = <<>>
    /\ i = 0
    /\ current = None
    /\ blocks \in RepeatLists
    /\ pc = "parsed"
    /\ fmt = ""
    /\ caps \in {[text |-> DefaultMax, bullets |-> DefaultMax], [text |-> 1, bullets |-> MaxCap]}
    /\ deck = <<>>
    /\ bi = 0
    /\ chunk = None
    /\ rows = <<>>
    /\ resp = None
    /\ rgb = None
    /\ prior = <<>>

\* the caller of the renderers calls them again on the same block list
CallAgain ==
    /\ entry = "repeat"
    /\ pc = "done"
    /\ resp # None /\ resp[1].status = 200
    /\ Len(prior) + 1 < MaxCalls
    /\ prior' = Append(prior, [deck |-> deck, rows |-> rows])
    /\ pc' = "parsed"
    /\ fmt' = ""
    /\ rgb' = None
    /\ deck' = <<>>
    /\ rows' = <<>>
    /\ bi' = 0
    /\ resp' = None
    /\ UNCHANGED <<entry, req, text, lines, i, current, blocks, caps, chunk>>

\* every integer the caller may pass as a cap: neither is validated
AnyCaps ==
    {[text |-> a, bullets |-> b] : a \in (0 - MaxCap)..MaxCap, b \in (0 - MaxCap)..MaxCap}

\* build_storyboard_pptx is about to be called with one Slide and caps of any sign
InitCaps ==
    /\ entry = "blocks"
    /\ req = DefaultArgs
    /\ text = <<>>
    /\ lines = <<>>
    /\ i = 0
    /\ current = None
    /\ blocks \in {<<SlideOf(T, B, FALSE)>> : T \in 0..MaxText, B \in 0..MaxText}
    /\ pc = "parsed"
    /\ fmt = ""
    /\ caps \in AnyCaps
    /\ deck = <<>>
    /\ bi = 0
    /\ chunk = None
    /\ rows = <<>>
    /\ resp = None
    /\ rgb = None
    /\ prior = <<>>

Init == InitRequest \/ InitBlocks \/ InitRepeat \/ InitCaps

Next ==
    \/ Route
    \/ ImportFail
    \/ ImportRow
    \/ ImportReturn
    \/ ParseSlideHeader
    \/ ParseQuizHeader
    \/ ParseField
    \/ ParseFreeform
    \/ ParseSkip
    \/ ParseReturn
    \/ Dispatch
    \/ RenderTitle
    \/ RenderBlock
    \/ RenderChunk
    \/ RenderSlideEnd
    \/ RenderSave
    \/ CsvHeader
    \/ CsvBlock
    \/ CsvReturn
    \/ CallAgain

\* a request with a pasted script or an upload, or a block list handed to the renderers
Spec == Init /\ [][Next]_vars

--------------------------------------------------------------------------
(* What the claims need to speak of *)

\* build_storyboard_pptx has returned the deck
DeckDone == pc \in {"csv", "csvloop", "done"} /\ fmt \in {"pptx", "zip"}

\* build_quiz_csv has returned the table
RowsDone == pc = "done" /\ fmt \in {"csv", "zip"}

IsQuiz(b) == b.type \in {"quiz", "quiz_single"}

\* the physical slides of block k (0-based), in deck order
SlidesOf(k) == SelectSeq(deck, LAMBDA s : s.block = k)

\* the kinds of the section headers among ls, in order
RECURSIVE HeaderKinds(_)
HeaderKinds(ls) ==
    IF ls = <<>> THEN <<>>
    ELSE (IF SLIDE_RE_match(strip(Head(ls))) THEN <<"slide">>
          ELSE IF QUIZ_SINGLE_RE_match(strip(Head(ls))) THEN <<"quiz_single">>
          ELSE <<>>) \o HeaderKinds(Tail(ls))

BlockTypes(bs) == [k \in 1..Len(bs) |-> bs[k].type]

\* the section headers' line numbers (1-based), and the k-th of them
HeaderAt == {j \in 1..Len(lines) : IsHeader(strip(lines[j]))}
NthHeader(k) == CHOOSE h \in HeaderAt : Cardinality({j \in HeaderAt : j <= h}) = k

\* the lines of the k-th section that state the quiz answer
AnswerLines(k) ==
    {j \in (NthHeader(k) + 1)..Len(lines) :
        /\ \A h \in HeaderAt : ~(NthHeader(k) < h /\ h <= j)
        /\ FIELD_RE_match(strip(lines[j]))
        /\ lower(FIELD_RE_group1(strip(lines[j]))) \in {<<"a","n","s","w","e","r">>, <<"c","o","r","r","e","c","t">>}}

\* the answer the k-th section states last
StatedAnswer(k) == strip(FIELD_RE_group2(strip(lines[Max(AnswerLines(k))])))

\* the table row of quiz block k (1-based)
QuizRow(k) == 1 + Cardinality({j \in 1..k : IsQuiz(blocks[j])})

Trimmed(s) == s # <<>> /\ strip(s) = s

IsPrefix(p, s) == Len(p) <= Len(s) /\ SubSeq(s, 1, Len(p)) = p

Ceil(n, m) == (n + m - 1) \div m


\* the row (1-based) the k-th imported block was made from, its title and lines
RowAt(k) == req.upload[1].table[1][k]
IsQuizRow(row) == startswith(upper(TitleRaw(Cell(row, 1))), <<"Q","U","I","Z">>)
RowLines(row) == slide_lines(BodyOf(Cell(row, 2)))

\* ln starts with one of the five bullet prefixes, or with a "-" no space follows
HasBulletPrefix(ln) ==
    \/ Len(ln) >= 2 /\ ln[1] \in {"-", Bullet, "*", EnDash, EmDash} /\ ln[2] = " "
    \/ Len(ln) >= 1 /\ ln[1] = "-" /\ ~(Len(ln) >= 2 /\ ln[2] = " ")

\* ln without its bullet prefix
PrefixStripped(ln) ==
    IF Len(ln) >= 2 /\ ln[1] \in {"-", Bullet, "*", EnDash, EmDash} /\ ln[2] = " "
    THEN strip(Drop(ln, 2))
    ELSE IF Len(ln) >= 1 /\ ln[1] = "-" THEN strip(Drop(ln, 1))
    ELSE ln

\* the entries of a stored text or bullets value: the items of a list, the
\* lines of a str
Entries(val) ==
    IF "list" \in DOMAIN val THEN val.list
    ELSE IF val.str = <<>> THEN <<>> ELSE split(val.str, "\n")

\* the value of the last "Answer: value" line among ls, empty when there is none
RECURSIVE BodyAnswer(_)
BodyAnswer(ls) ==
    IF ls = <<>> THEN <<>>
    ELSE LET ln == ls[Len(ls)]
         IN  IF ":" \in Range(ln) /\ lower(strip(split1(ln, ":")[1])) = <<"a","n","s","w","e","r">>
             THEN strip(split1(ln, ":")[2])
             ELSE BodyAnswer(SubSeq(ls, 1, Len(ls) - 1))

\* the letters a quiz block's answer names: the non-empty parts between the
\* commas of a letter-form answer, the one letter of an index-form answer
AnswerLetters(b) ==
    IF b.type = "quiz"
    THEN {p \in Range(split(upper(remove_spaces(Get(b, "answer", <<>>))), ",")) : p # <<>>}
    ELSE {p \in {get_letter(Get(b, "correctIndex", None))} : p # <<>>}

\* the question a quiz slide shows: its text paragraphs
Hint == <<"(","S","e","l","e","c","t"," ","a","l","l"," ","t","h","a","t"," ","a","p","p","l","y",")">>

\* what the claim calls a colour string: 3 or 6 hex digits after at most one "#"
HexBody(h) == IF strip(h) # <<>> /\ Head(strip(h)) = "#" THEN Tail(strip(h)) ELSE strip(h)
AllHex(s) == \A k \in 1..Len(s) : HexVal(s[k]) >= 0
ColourOf(h, default) ==
    LET s == HexBody(h)
    IN  IF Len(s) = 3 /\ AllHex(s)
        THEN <<17 * HexVal(s[1]), 17 * HexVal(s[2]), 17 * HexVal(s[3])>>
        ELSE IF Len(s) = 6 /\ AllHex(s)
        THEN <<16 * HexVal(s[1]) + HexVal(s[2]), 16 * HexVal(s[3]) + HexVal(s[4]),
               16 * HexVal(s[5]) + HexVal(s[6])>>
        ELSE default

\* what a deck shows: per slide its title, text, bullets and notes
Shown(d) ==
    [k \in 1..Len(d) |->
        [title |-> d[k].title, text |-> d[k].text, bullets |-> d[k].bullets, notes |-> d[k].notes]]

\* the physical slides of Slide block b at position at when no picture is placed
RECURSIVE Pages(_, _, _, _)
Pages(b, at, g, chunk_idx) ==
    IF chunk_more(chunk_advance(g))
    THEN <<ChunkSlide(b, at, chunk_idx + 1, chunk_yield(chunk_advance(g)), FALSE)>>
         \o Pages(b, at, chunk_advance(g), chunk_idx + 1)
    ELSE <<>>

\* the download name of a format
FileOf(f) ==
    BaseName \o (IF f = "pptx" THEN <<".","p","p","t","x">> ELSE IF f = "csv" THEN <<".","c","s","v">> ELSE <<".","z","i","p">>)

\* the importer raises: unsupported extension, or the table cannot be read
ImportFails == entry = "upload" /\ (~Supported(req.upload[1].filename) \/ req.upload[1].table = None)

--------------------------------------------------------------------------
(* The claims *)

\* C1: for a block list that a parser produced, the finished deck is one
\* title slide followed by one or more slides for every block, none skipped,
\* in block order.
C1_DeckCoversEveryBlock ==
    (entry # "blocks" /\ DeckDone) =>
        /\ Len(deck) >= 1
        /\ \A k \in 1..Len(deck) : (deck[k].block = -1) <=> (k = 1)
        /\ \A k \in 1..(Len(deck) - 1) : deck[k].block <= deck[k + 1].block
        /\ \A b \in 0..(Len(blocks) - 1) : \E k \in 1..Len(deck) : deck[k].block = b

\* C2: a Quiz section whose answer line reads "A,C" parses to a quiz whose
\* answer is exactly "A,C", and its exported row has "A,C" in the Correct column.
C2_MultiLetterRoundTrip ==
    (entry = "script" /\ pc # "parse") =>
        \A k \in 1..Len(blocks) :
            (IsQuiz(blocks[k]) /\ AnswerLines(k) # {} /\ StatedAnswer(k) = <<"A",",","C">>) =>
                /\ Get(blocks[k], "answer", <<>>) = <<"A",",","C">>
                /\ RowsDone => rows[QuizRow(k)][7] = <<"A",",","C">>

\* C3: every step of parse_script either moves the line index strictly
\* forward, never past the end of the input, or is the return of the block
\* list once the index has reached the end: the loop cannot run for ever.
C3_ParseAdvancesAndReturns ==
    [][pc = "parse" =>
            \/ pc' = "parsed" /\ i >= Len(lines) /\ i' = i
            \/ pc' = "parse" /\ i' > i /\ i' <= Len(lines)]_vars

C3_Witness ==
    /\ entry = "script"
    /\ text = ScenarioA
    /\ pc = "parsed"
    /\ i = 11
    /\ Len(blocks) = 2

\* C4: block boundaries are exactly the section headers: while parsing, the
\* flushed blocks plus the open one are the headers read so far, in order, and
\* only the last header's block is open; the result has one block per header.
C4_BlocksAreSections ==
    entry = "script" =>
        /\ pc = "parse" =>
             /\ BlockTypes(blocks) \o (IF current # None THEN <<current[1].type>> ELSE <<>>)
                    = HeaderKinds(SubSeq(lines, 1, i))
             /\ (current = None) <=> (HeaderKinds(SubSeq(lines, 1, i)) = <<>>)
        /\ pc # "parse" => BlockTypes(blocks) = HeaderKinds(lines)

\* a blank line after "Text: a", then a freeform line and a field: one block
C4_Witness ==
    /\ entry = "script"
    /\ text = <<"#","#"," ","S","l","i","d","e",":"," ","T","\n","T","e","x","t",":"," ","a","\n","\n","x","\n","N","o","t","e","s",":"," ","n","\n">>
    /\ pc = "parsed"
    /\ Len(blocks) = 1
    /\ blocks[1].text.list = <<<<"a">>, <<"x">>>>
    /\ blocks[1].narration = <<"n">>

\* C5: every returned Slide has only non-empty trimmed text and bullets
\* entries, and a narration without leading or trailing whitespace.
C5_SlideEntriesTrimmed ==
    (entry = "script" /\ pc # "parse") =>
        \A k \in 1..Len(blocks) :
            blocks[k].type = "slide" =>
                /\ \A e \in Range(blocks[k].text.list) : Trimmed(e)
                /\ \A e \in Range(blocks[k].bullets.list) : Trimmed(e)
                /\ strip(blocks[k].narration) = blocks[k].narration

\* padded field value, padded freeform line, padded bullet
C5_Witness ==
    /\ entry = "script"
    /\ pc = "parsed"
    /\ \E k \in 1..Len(blocks) :
        /\ blocks[k].type = "slide"
        /\ \/ blocks[k].text.list = <<<<"a">>, <<"x">>>>
           \/ blocks[k].bullets.list = <<<<"b">>, <<"b">>>>

\* C6: a non-blank line the main loop meets inside an open Slide, neither a
\* header nor a field line, is appended to the Slide's text.
C6_FreeformLineKept ==
    [][(/\ pc = "parse"
        /\ i < Len(lines)
        /\ current # None
        /\ current[1].type = "slide"
        /\ strip(Line(i)) # <<>>
        /\ ~IsHeader(strip(Line(i)))
        /\ ~FIELD_RE_match(strip(Line(i))))
       => (/\ current' # None
           /\ IsPrefix(current[1].text.list \o <<strip(Line(i))>>, current'[1].text.list))]_vars

\* C7: a Slide with n >= 1 bullets and no text renders as ceil(n/m) slides
\* with m bullets on each but the last and the remainder on the last; the
\* first carries the title and the later ones the title plus " (cont.)";
\* the narration is on the first slide and no later slide has notes or image.
C7_BulletsOnlyPagination ==
    DeckDone =>
        \A k \in 1..Len(blocks) :
            (/\ blocks[k].type = "slide"
             /\ field_lines(blocks[k], "text") = <<>>
             /\ field_lines(blocks[k], "bullets") # <<>>) =>
                LET S == SlidesOf(k - 1)
                    n == Len(field_lines(blocks[k], "bullets"))
                    m == caps.bullets
                    title == strip(OrStr(Get(blocks[k], "title", <<>>), <<"S","l","i","d","e">>))
                IN  /\ Len(S) = Ceil(n, m)
                    /\ \A j \in 1..Len(S) :
                        /\ Len(S[j].bullets) = IF j < Len(S) THEN m ELSE n - m * (Len(S) - 1)
                        /\ S[j].text = <<>>
                        /\ S[j].title = IF j = 1 THEN title ELSE title \o <<" ","(","c","o","n","t",".",")">>
                        /\ j > 1 => (S[j].notes = <<>> /\ ~S[j].image)
                    /\ S[1].notes = splitlines(strip(Get(blocks[k], "narration", <<>>)))

\* 13 bullets under the default cap of 6: [6, 6, 1], picture and notes on the first
C7_Witness ==
    /\ DeckDone
    /\ blocks = <<SlideOf(0, 13, TRUE)>>
    /\ caps.bullets = 6
    /\ Len(deck) = 4
    /\ <<Len(deck[2].bullets), Len(deck[3].bullets), Len(deck[4].bullets)>> = <<6, 6, 1>>
    /\ deck[2].image
    /\ deck[2].notes = <<<<"n","1">>, <<"n","2">>>>
    /\ deck[4].title = <<"S"," ","(","c","o","n","t",".",")">>

\* C8: with T >= 1 text lines and B >= 1 bullets, slide k (from 0) shows text
\* lines [k*mt, (k+1)*mt) and bullets [k*mb, (k+1)*mb), and there are
\* max(ceil(T/mt), ceil(B/mb)) slides.
C8_LockstepPagination ==
    DeckDone =>
        \A k \in 1..Len(blocks) :
            (/\ blocks[k].type = "slide"
             /\ field_lines(blocks[k], "text") # <<>>
             /\ field_lines(blocks[k], "bullets") # <<>>) =>
                LET S == SlidesOf(k - 1)
                    tl == field_lines(blocks[k], "text")
                    bl == field_lines(blocks[k], "bullets")
                    mt == caps.text
                    mb == caps.bullets
                IN  /\ Len(S) = Max({Ceil(Len(tl), mt), Ceil(Len(bl), mb)})
                    /\ \A j \in 1..Len(S) :
                        /\ S[j].text = Slice(tl, (j - 1) * mt, j * mt)
                        /\ S[j].bullets = Slice(bl, (j - 1) * mb, j * mb)

\* one text line, three bullets, caps 2 and 1: three slides, text on the first only
C8_Witness ==
    /\ DeckDone
    /\ blocks = <<SlideOf(1, 3, FALSE)>>
    /\ caps = [text |-> 2, bullets |-> 1]
    /\ Len(deck) = 4
    /\ deck[2].text = <<<<"t","0","1">>>>
    /\ deck[3].text = <<>>
    /\ deck[4].bullets = <<<<"b","0","3">>>>

\* C9: the table is the header row and one row per quiz block, in block
\* order; a script of one Slide and one Quiz answered B exports two rows with
\* Correct "B".
C9_OneRowPerQuiz ==
    RowsDone =>
        /\ rows[1] = HeaderRow
        /\ Len(rows) = 1 + Cardinality({k \in 1..Len(blocks) : IsQuiz(blocks[k])})
        /\ \A k \in 1..Len(blocks) :
            IsQuiz(blocks[k]) =>
                /\ Len(rows[QuizRow(k)]) = 9
                /\ rows[QuizRow(k)][1] = Get(blocks[k], "title", <<>>)
                /\ rows[QuizRow(k)][2] = Get(blocks[k], "question", <<>>)
        /\ (/\ entry = "script"
            /\ BlockTypes(blocks) = <<"slide", "quiz_single">>
            /\ AnswerLines(2) # {}
            /\ StatedAnswer(2) = <<"B">>)
           => (Len(rows) = 2 /\ rows[2][7] = <<"B">>)

C9_Witness ==
    /\ entry = "script"
    /\ text = ScenarioA
    /\ RowsDone
    /\ Len(rows) = 2
    /\ rows[2] = <<<<>>, <<"2","+","2","?">>, <<"3">>, <<"4">>, <<>>, <<>>, <<"B">>, <<>>, <<>>>>

\* C10: the Correct cell of a letter-form quiz is the answer uppercased with
\* no space left anywhere in it.
C10_CorrectHasNoSpaces ==
    RowsDone =>
        \A k \in 1..Len(blocks) :
            blocks[k].type = "quiz" =>
                /\ rows[QuizRow(k)][7] = upper(remove_spaces(Get(blocks[k], "answer", <<>>)))
                /\ " " \notin Range(rows[QuizRow(k)][7])

\* C11: the row of an index-form quiz has exactly 9 columns; its Correct cell
\* is "ABCD"[correctIndex] when correctIndex is an integer in 0..3 and empty
\* when it is null, negative or >= 4; its four option cells are the first four
\* choices, padded with empty strings.
C11_IndexFormRow ==
    RowsDone =>
        \A k \in 1..Len(blocks) :
            blocks[k].type = "quiz_single" =>
                LET b == blocks[k]
                    row == rows[QuizRow(k)]
                    idx == Get(b, "correctIndex", None)
                    choices == Get(b, "choices", <<>>)
                IN  /\ Len(row) = 9
                    /\ row[7] = IF idx # None /\ idx[1] \in 0..3
                                THEN <<UpperLetters[idx[1] + 1]>> ELSE <<>>
                    /\ \A c \in 1..4 :
                         row[2 + c] = IF c <= Len(choices) THEN choices[c] ELSE <<>>

\* rows of index-form quizzes with a negative index, an index >= 4, fewer than
\* four and more than four choices have been written
C11_Witness ==
    /\ RowsDone
    /\ \E k \in 1..Len(blocks) :
         /\ blocks[k].type = "quiz_single"
         /\ Get(blocks[k], "correctIndex", None) # None
         /\ blocks[k].correctIndex[1] < 0
         /\ Len(blocks[k].choices) > 4
         /\ rows[QuizRow(k)][7] = <<>>

\* C12: in the row of a quiz block of either shape, the FeedbackCorrect (resp.
\* FeedbackIncorrect) cell is the value under feedback_correct when that is
\* non-empty, otherwise the value under feedbackCorrect, otherwise empty.
C12_FeedbackReconciled ==
    RowsDone =>
        \A k \in 1..Len(blocks) :
            IsQuiz(blocks[k]) =>
                LET b == blocks[k]
                    row == rows[QuizRow(k)]
                IN  /\ row[8] = IF Get(b, "feedback_correct", <<>>) # <<>>
                                THEN b.feedback_correct ELSE Get(b, "feedbackCorrect", <<>>)
                    /\ row[9] = IF Get(b, "feedback_incorrect", <<>>) # <<>>
                                THEN b.feedback_incorrect ELSE Get(b, "feedbackIncorrect", <<>>)

\* C13: the Slide made from a non-quiz row has exactly one of bullets and text;
\* if a line of the row has a bullet prefix it has bullets, holding every line
\* in order with the prefix stripped, and no text; otherwise it has text,
\* holding all lines in order as a sequence of lines, and no bullets.
C13_ImportedSlideClassified ==
    entry = "upload" =>
        \A k \in 1..Len(blocks) :
            ~IsQuizRow(RowAt(k)) =>
                LET b == blocks[k]
                    ls == RowLines(RowAt(k))
                IN  /\ b.type = "slide"
                    /\ ("bullets" \in DOMAIN b) # ("text" \in DOMAIN b)
                    /\ IF \E j \in 1..Len(ls) : HasBulletPrefix(ls[j])
                       THEN /\ "bullets" \in DOMAIN b
                            /\ b.bullets = PyList([j \in 1..Len(ls) |-> PrefixStripped(ls[j])])
                       ELSE /\ "text" \in DOMAIN b
                            /\ b.text = PyList(ls)

\* C14: every entry of the text and of the bullets of an imported Slide is
\* non-empty and trimmed.
C14_ImportedEntriesTrimmed ==
    entry = "upload" =>
        \A k \in 1..Len(blocks) :
            blocks[k].type = "slide" =>
                \A key \in {"text", "bullets"} \cap DOMAIN blocks[k] :
                    \A j \in 1..Len(Entries(blocks[k][key])) :
                        Trimmed(Entries(blocks[k][key])[j])

\* C15: a row whose trimmed title starts with QUIZ (in any case) gives a Quiz
\* block whose title is the title cell after its first ":" (trimmed), whatever
\* "Key: value" lines the body has, and whose answer is the body's Answer value
\* uppercased with its spaces removed.
C15_ImportedQuiz ==
    entry = "upload" =>
        \A k \in 1..Len(blocks) :
            IsQuizRow(RowAt(k)) =>
                LET b == blocks[k]
                    title_raw == TitleRaw(Cell(RowAt(k), 1))
                IN  /\ b.type = "quiz"
                    /\ b.title = IF ":" \in Range(title_raw)
                                 THEN strip(split1(title_raw, ":")[2]) ELSE title_raw
                    /\ b.answer = upper(remove_spaces(
                                     BodyAnswer(split_body_to_lines(BodyOf(Cell(RowAt(k), 2))))))

\* C16: a Quiz block is rendered on exactly one slide, whose question carries
\* the hint "(Select all that apply)" if and only if the block's answer names
\* more than one letter.
C16_QuizHint ==
    DeckDone =>
        \A k \in 1..Len(blocks) :
            IsQuiz(blocks[k]) =>
                /\ Len(SlidesOf(k - 1)) = 1
                /\ LET shown == SlidesOf(k - 1)[1].text
                   IN  (\E j \in 1..Len(shown) :
                            Len(shown[j]) >= Len(Hint)
                            /\ SubSeq(shown[j], Len(shown[j]) - Len(Hint) + 1, Len(shown[j])) = Hint)
                       <=> Cardinality(AnswerLetters(blocks[k])) > 1

\* C17: the text and background colours of a deck are the colours the theme
\* strings name (3 or 6 hex digits, with or without a leading "#"), and for
\* every other string the default of the field: #111111 for font_color,
\* #FFFFFF for bg_color.
C17_HexColours ==
    rgb # None =>
        /\ rgb[1].text = ColourOf(FontColor, <<17, 17, 17>>)
        /\ rgb[1].bg = ColourOf(BgColor, <<255, 255, 255>>)

\* C18: no step of a renderer changes the block list, and a deck (resp. table)
\* rendered from a block list shows the same slides (resp. has the same rows)
\* as every deck (resp. table) rendered from it before, whichever renderer ran
\* in between.
C18_RenderersReadOnly ==
    [][(pc \in {"parsed", "pptx", "render", "csv", "csvloop", "done"}) =>
          /\ blocks' = blocks
          /\ \A n \in 1..Len(prior') :
               /\ (DeckDone' /\ prior'[n].deck # <<>>) => Shown(deck') = Shown(prior'[n].deck)
               /\ (RowsDone' /\ prior'[n].rows # <<>>) => rows' = prior'[n].rows]_vars

\* a paginated Slide with narration and a quiz have been rendered to deck and
\* table twice
C18_Witness ==
    /\ entry = "repeat"
    /\ DeckDone /\ RowsDone
    /\ Len(prior) >= 1
    /\ prior[1].deck # <<>> /\ prior[1].rows # <<>>
    /\ Len(deck) > 3 /\ Len(rows) > 1
    /\ \E k \in 1..Len(deck) : deck[k].notes # <<>>

\* C19: a request runs the importer if and only if it has an upload with a
\* filename, otherwise the parser; then pptx runs only the deck renderer and
\* returns <filename>.pptx, csv runs only the table exporter and returns
\* <filename>.csv, zip runs both and returns an archive of exactly
\* <filename>.pptx and <filename>.csv; any other format and any import failure
\* end in a client error with no renderer run and no file.
C19_ServiceDispatch ==
    [][(entry \in {"request", "script", "upload"}) =>
          /\ pc' = "import" => HasUpload
          /\ pc' = "parse" => ~HasUpload
          /\ pc' = "done" =>
               (IF ImportFails' \/ fmt' \notin {"pptx", "csv", "zip"}
                THEN resp' = Some(ClientError) /\ deck' = <<>> /\ rows' = <<>>
                ELSE /\ resp' # None /\ resp'[1].status = 200
                     /\ deck' # <<>> <=> fmt' \in {"pptx", "zip"}
                     /\ rows' # <<>> <=> fmt' \in {"csv", "zip"}
                     /\ resp'[1].name = FileOf(fmt')
                     /\ resp'[1].entries = (IF fmt' = "zip" THEN <<FileOf("pptx"), FileOf("csv")>> ELSE <<>>))]_vars

\* an uploaded table has been imported and returned as an archive named after
\* the form's filename
C19_Witness ==
    /\ entry = "upload"
    /\ pc = "done"
    /\ fmt = "zip"
    /\ Len(blocks) >= 2
    /\ resp # None
    /\ Len(resp[1].entries) = 2

\* C20: whatever the outcome of resolving and placing the image of a Slide,
\* the block's physical slides have the count, titles, text lines, bullet
\* lines and notes of the same block with an empty image reference.
C20_ImageFailureKeepsSlide ==
    DeckDone =>
        \A k \in 1..Len(blocks) :
            (blocks[k].type = "slide" /\ strip(Get(blocks[k], "image", <<>>)) # <<>>) =>
                Shown(SlidesOf(k - 1)) =
                    Shown(Pages([blocks[k] EXCEPT !.image = <<>>], k - 1,
                                chunk_content(field_lines(blocks[k], "text"),
                                              field_lines(blocks[k], "bullets"),
                                              caps.text, caps.bullets), 0))

\* a paginated Slide with an image reference has been rendered without a picture
C20_Witness ==
    /\ DeckDone
    /\ \E k \in 1..Len(blocks) :
         /\ blocks[k].type = "slide"
         /\ strip(Get(blocks[k], "image", <<>>)) # <<>>
         /\ Len(SlidesOf(k - 1)) >= 2
         /\ ~SlidesOf(k - 1)[1].image
         /\ SlidesOf(k - 1)[1].notes # <<>>

\* C21: for all integer caps the chunk loop ends: each time the generator is
\* resumed after a yield strictly less content is left, so a Slide of T text
\* lines and B bullets is given at most max(1, T + B) physical slides.
C21_PaginationTerminates ==
    [][(pc = "render" /\ chunk # None /\ chunk' # None) =>
          LET g == chunk[1].gen
              h == chunk'[1].gen
          IN  /\ g.started => Len(h.text) + Len(h.bullets) < Len(g.text) + Len(g.bullets)
              /\ chunk'[1].chunk_idx <=
                     Max({1, Len(field_lines(blocks[bi + 1], "text"))
                             + Len(field_lines(blocks[bi + 1], "bullets"))})]_vars

====
